---- MODULE Spec2Model ----
(***************************************************************************)
(* Model of training/dataloader.py: the CAL_Dataset constructor (label     *)
(* encoding and sequence boundaries) and CAL_Dataset.__getitem__ (window   *)
(* resolution, frame loading, label assembly), run by a pool of workers.   *)
(*                                                                         *)
(* Row indices are 0-based as in the source; a column is a TLA+ sequence,  *)
(* so row r of column c is c[r + 1] (operator At).  Python's False / True  *)
(* are written 0 / 1 (they compare equal to 0 / 1 in Python and numpy).    *)
(* Image decoding, the augmentation operators and the continuous labels    *)
(* (a real-valued division) are not modelled.                              *)
(***************************************************************************)
EXTENDS Integers, Sequences, FiniteSets, TLC

VARIABLES table, t, seq_len_arg, subset_len, pool,
          ds_state, total_frames, im_paths, direction, labels, start_idx,
          seq_len, frame_buffer,
          pc, req, idx, frames, last_idx, out

args == <<table, t, seq_len_arg, subset_len, pool>>
fields == <<total_frames, im_paths, direction, labels, start_idx, seq_len, frame_buffer>>
locals == <<pc, req, idx, frames, last_idx, out>>
vars == <<args, ds_state, fields, locals>>

\* ---------------------------------------------------------------- bounds
MaxFrames == 8
MaxSeqs == 3
MaxSeqLen == 3
MaxLabelRows == 2
MaxPoolFrames == 4

\* ------------------------------------------------------------- vocabularies
RED_LIGHT_VALS == <<0, 1>>
HAZARD_STOP_VALS == <<0, 1>>
SPEED_SIGN_VALS == <<-1, 30, 60, 90>>

\* ------------------------------------------------------------------ helpers
At(col, r) == col[r + 1]

Column(df, k) == [i \in 1..Len(df) |-> df[i][k]]

Elems(s) == {s[i] : i \in 1..Len(s)}

\* df[:subset_len] when subset_len is non-zero
Truncate(df, n) ==
    IF n # 0 THEN SubSeq(df, 1, IF n < Len(df) THEN n ELSE Len(df)) ELSE df

\* onehot, exact-equality branch (no vocabulary of this file is a float list)
onehot(vals, possible_vals) ==
    [i \in 1..Len(vals) |->
        [j \in 1..Len(possible_vals) |->
            IF possible_vals[j] = vals[i] THEN 1 ELSE 0]]

\* np.diff
diff(s) == [i \in 1..(Len(s) - 1) |-> s[i + 1] - s[i]]

\* np.where(d)[0]: the ascending 0-based positions of the non-zero entries
RECURSIVE where(_, _)
where(d, n) ==
    IF n = 0 THEN <<>>
    ELSE IF d[n] # 0 THEN Append(where(d, n - 1), n - 1) ELSE where(d, n - 1)

\* np.where(np.diff(df.seq_id)) + np.array(1): an array of shape (1, k)
ChangePoints(df) ==
    LET d == diff(Column(df, "seq_id"))
        w == where(d, Len(d))
    IN [i \in 1..Len(w) |-> w[i] + 1]

\* np.squeeze of the (1, k) array is 0-dimensional when k = 1, and list() of a
\* 0-dimensional array raises TypeError
SqueezeIterable(cp) == Len(cp) # 1

StartIdx(df) == <<0>> \o ChangePoints(df)

\* bisect.bisect_right(a, x)
RECURSIVE bisect_loop(_, _, _, _)
bisect_loop(a, x, lo, hi) ==
    IF lo < hi
    THEN LET mid == (lo + hi) \div 2
         IN IF x < At(a, mid) THEN bisect_loop(a, x, lo, mid)
            ELSE bisect_loop(a, x, mid + 1, hi)
    ELSE lo

bisect_right(a, x) == bisect_loop(a, x, 0, Len(a))

\* idx = idx % self.total_frames
WrapIndexNone(i) == i

WrapIndex(i) == i % total_frames

\* lines 182-186: the next file's start, or total_frames - seq_len
NextStart(i) ==
    LET next_file_idx == bisect_right(start_idx, i)
    IN IF next_file_idx < Len(start_idx)
       THEN At(start_idx, next_file_idx)
       ELSE total_frames - seq_len

\* lines 179-189: the first frame index of the window
ResolveIdx(i) ==
    LET j == WrapIndex(i)
        start == NextStart(j)
    IN IF start < j + seq_len THEN start - seq_len ELSE j

Rows == 0..(total_frames - 1)

\* ------------------------------------------------------------------ inputs
Workers == {1, 2}

SplitNames == {"train", "val", "test"}

SubsetLens == {0, 3}

SeqIdColumns(maxRows) ==
    UNION {{s \in [1..n -> 1..MaxSeqs] :
                /\ s[1] = 1
                /\ \A i \in 1..(n - 1) : s[i + 1] \in {s[i], s[i] + 1}}
           : n \in 1..maxRows}

\* a frame record whose labels all lie in the vocabularies
PlainRow(r, sid) ==
    [seq_id |-> sid, im_name |-> r, direction |-> (r % 3) - 1,
     red_light |-> r % 2, hazard_stop |-> (r \div 2) % 2,
     speed_sign |-> SPEED_SIGN_VALS[(r % 4) + 1]]

PlainTable(s) == [i \in 1..Len(s) |-> PlainRow(i - 1, s[i])]

\* raw categorical triples, some outside the vocabularies
RawRows ==
    {<<0, 0, -1>>, <<1, 0, 60>>, <<1, 1, 30>>, <<0, 1, 90>>,
     <<2, 0, 30>>, <<0, 2, 60>>, <<1, 1, 45>>}

LabelRow(r, sid, raw) ==
    [seq_id |-> sid, im_name |-> r, direction |-> (r % 3) - 1,
     red_light |-> raw[1], hazard_stop |-> raw[2], speed_sign |-> raw[3]]

LabelTables ==
    UNION {{[i \in 1..n |-> LabelRow(i - 1, s[i], c[i])] :
                s \in {x \in SeqIdColumns(MaxLabelRows) : Len(x) = n},
                c \in [1..n -> RawRows]}
           : n \in 1..MaxLabelRows}

InitDataset ==
    /\ ds_state = "new"
    /\ total_frames = 0
    /\ im_paths = <<>>
    /\ direction = <<>>
    /\ labels = [red_light |-> <<>>, hazard_stop |-> <<>>, speed_sign |-> <<>>]
    /\ start_idx = <<>>
    /\ seq_len = 0
    /\ frame_buffer = <<>>

InitLocals ==
    /\ pc = [w \in Workers |-> "idle"]
    /\ req = [w \in Workers |-> 0]
    /\ idx = [w \in Workers |-> 0]
    /\ frames = [w \in Workers |-> <<>>]
    /\ last_idx = [w \in Workers |-> 0]
    /\ out = [w \in Workers |-> <<>>]

Init ==
    /\ table \in {PlainTable(s) : s \in SeqIdColumns(MaxFrames)}
    /\ t \in SplitNames
    /\ seq_len_arg \in 1..MaxSeqLen
    /\ subset_len \in SubsetLens
    /\ pool = {1}
    /\ InitDataset
    /\ InitLocals

InitLabels ==
    /\ table \in LabelTables
    /\ t \in SplitNames
    /\ seq_len_arg \in 1..MaxSeqLen
    /\ subset_len \in SubsetLens
    /\ pool = {1}
    /\ InitDataset
    /\ InitLocals

InitWorkers ==
    /\ table \in {PlainTable(s) : s \in SeqIdColumns(MaxPoolFrames)}
    /\ t \in SplitNames
    /\ seq_len_arg \in 1..MaxSeqLen
    /\ subset_len = 0
    /\ pool = Workers
    /\ InitDataset
    /\ InitLocals

\* ------------------------------------------------------------- construction
\* CAL_Dataset.__init__ running to completion
Construct ==
    LET df == Truncate(table, subset_len)
    IN /\ ds_state = "new"
       /\ t \in {"train", "val"}
       /\ SqueezeIterable(ChangePoints(df))
       /\ ds_state' = "constructed"
       /\ total_frames' = Len(df)
       /\ im_paths' = [i \in 1..Len(df) |-> <<"root_dir", df[i].im_name>>]
       /\ direction' = Column(df, "direction")
       /\ labels' = [red_light |-> onehot(Column(df, "red_light"), RED_LIGHT_VALS),
                     hazard_stop |-> onehot(Column(df, "hazard_stop"), HAZARD_STOP_VALS),
                     speed_sign |-> onehot(Column(df, "speed_sign"), SPEED_SIGN_VALS)]
       /\ start_idx' = StartIdx(df)
       /\ seq_len' = seq_len_arg
       /\ frame_buffer' = <<>>
       /\ UNCHANGED <<args, locals>>

\* CAL_Dataset.__init__ raising: the assert on t, or list() of a 0-d array
ConstructRaise ==
    LET df == Truncate(table, subset_len)
    IN /\ ds_state = "new"
       /\ \/ /\ t \notin {"train", "val"}
             /\ ds_state' = "AssertionError"
             /\ UNCHANGED fields
          \/ /\ t \in {"train", "val"}
             /\ ~SqueezeIterable(ChangePoints(df))
             /\ ds_state' = "TypeError"
             /\ total_frames' = Len(df)
             /\ im_paths' = [i \in 1..Len(df) |-> <<"root_dir", df[i].im_name>>]
             /\ direction' = Column(df, "direction")
             /\ labels' = [red_light |-> onehot(Column(df, "red_light"), RED_LIGHT_VALS),
                           hazard_stop |-> onehot(Column(df, "hazard_stop"), HAZARD_STOP_VALS),
                           speed_sign |-> onehot(Column(df, "speed_sign"), SPEED_SIGN_VALS)]
             /\ UNCHANGED <<start_idx, seq_len, frame_buffer>>
       /\ UNCHANGED <<args, locals>>

\* ------------------------------------------------------------- __getitem__
\* the logical indices a caller passes: one period below and above the table
Requests == (0 - total_frames)..(2 * total_frames - 1)

\* lines 177-189
GetItem(w, i) ==
    /\ ds_state = "constructed"
    /\ pc[w] = "idle"
    /\ pc' = [pc EXCEPT ![w] = "frames"]
    /\ req' = [req EXCEPT ![w] = i]
    /\ idx' = [idx EXCEPT ![w] = ResolveIdx(i)]
    /\ frames' = [frames EXCEPT ![w] = <<>>]
    /\ UNCHANGED <<args, ds_state, fields, last_idx, out>>

\* one iteration of the loop of lines 192-195; a Series lookup outside the
\* index raises KeyError
LoadFrameBuffered(w) ==
    /\ pc[w] = "frames"
    /\ Len(frames[w]) < seq_len
    /\ LET r == idx[w] + Len(frames[w])
       IN IF r \in Rows
          THEN /\ frames' = [frames EXCEPT ![w] = Append(@, [im |-> At(im_paths, r), transform |-> t])]
               /\ frame_buffer' = Append(frame_buffer, At(im_paths, r))
               /\ pc' = pc
          ELSE /\ pc' = [pc EXCEPT ![w] = "KeyError"]
               /\ UNCHANGED <<frames, frame_buffer>>
    /\ UNCHANGED <<args, ds_state, total_frames, im_paths, direction, labels,
                   start_idx, seq_len, req, idx, last_idx, out>>

LoadFrame(w) ==
    /\ pc[w] = "frames"
    /\ Len(frames[w]) < seq_len
    /\ LET r == idx[w] + Len(frames[w])
       IN IF r \in Rows
          THEN /\ frames' = [frames EXCEPT ![w] = Append(@, [im |-> At(im_paths, r), transform |-> t])]
               /\ pc' = pc
          ELSE /\ pc' = [pc EXCEPT ![w] = "KeyError"]
               /\ UNCHANGED frames
    /\ UNCHANGED <<args, ds_state, fields, req, idx, last_idx, out>>

\* lines 196-204
GetLabels(w) ==
    /\ pc[w] = "frames"
    /\ Len(frames[w]) = seq_len
    /\ LET l == idx[w] + seq_len
       IN /\ last_idx' = [last_idx EXCEPT ![w] = l]
          /\ IF l \in Rows
             THEN /\ out' = [out EXCEPT ![w] =
                        <<[sequence |-> frames[w], direction |-> At(direction, l)],
                          [k \in DOMAIN labels |-> At(labels[k], l)]>>]
                  /\ pc' = [pc EXCEPT ![w] = "done"]
             ELSE /\ pc' = [pc EXCEPT ![w] = "KeyError"]
                  /\ out' = out
    /\ UNCHANGED <<args, ds_state, fields, req, idx, frames>>

\* the caller takes the result (or the exception) and the locals die
Return(w) ==
    /\ pc[w] \in {"done", "KeyError"}
    /\ pc' = [pc EXCEPT ![w] = "idle"]
    /\ req' = [req EXCEPT ![w] = 0]
    /\ idx' = [idx EXCEPT ![w] = 0]
    /\ frames' = [frames EXCEPT ![w] = <<>>]
    /\ last_idx' = [last_idx EXCEPT ![w] = 0]
    /\ out' = [out EXCEPT ![w] = <<>>]
    /\ UNCHANGED <<args, ds_state, fields>>

Next ==
    \/ Construct
    \/ ConstructRaise
    \/ \E w \in pool, i \in Requests : GetItem(w, i)
    \/ \E w \in pool : LoadFrame(w)
    \/ \E w \in pool : GetLabels(w)
    \/ \E w \in pool : Return(w)

Spec == Init /\ [][Next]_vars

SpecLabels == InitLabels /\ [][Next]_vars

SpecWorkers == InitWorkers /\ [][Next]_vars

\* ------------------------------------------------------------------ claims
\* the table the constructor works on, and the sequence id of row r
df_used == Truncate(table, subset_len)

SeqId(r) == At(Column(df_used, "seq_id"), r)

\* the frame indices a call reads for its window
Window(w) == {idx[w] + k : k \in 0..(seq_len - 1)}

Called(w) == pc[w] # "idle"

Min(S) == CHOOSE x \in S : \A y \in S : x <= y

RECURSIVE Ascending(_)
Ascending(S) == IF S = {} THEN <<>> ELSE <<Min(S)>> \o Ascending(S \ {Min(S)})

\* the rows at which a sequence starts: row 0 and every change of seq_id
SequenceStarts ==
    {0} \cup {i \in 1..(Len(df_used) - 1) : SeqId(i) # SeqId(i - 1)}

AllSeqsLongEnough ==
    \A r \in Rows : Cardinality({q \in Rows : SeqId(q) = SeqId(r)}) >= seq_len

\* C1: for every idx in [0, total_frames) the window is exactly seq_len
\* consecutive frames of the table, all with the same sequence id.
C1_WindowInOneSequence ==
    \A w \in Workers :
        (Called(w) /\ req[w] \in Rows) =>
            /\ Window(w) \subseteq Rows
            /\ \A a, b \in Window(w) : SeqId(a) = SeqId(b)
            /\ pc[w] = "done" =>
                  /\ Len(out[w][1].sequence) = seq_len
                  /\ \A k \in 1..seq_len :
                        out[w][1].sequence[k].im = At(im_paths, idx[w] + k - 1)

\* C2: a request at a sequence's first frame b reads no frame index below b.
C2_StartNotInPreviousSequence ==
    \A w \in Workers :
        (Called(w) /\ req[w] \in Elems(start_idx)) =>
            \A f \in Window(w) : f >= req[w]

\* the boundary after idx: the least sequence start above it, or
\* total_frames - seq_len in the final sequence
NextBoundary(i) ==
    IF \E b \in SequenceStarts : b > i
    THEN Min({b \in SequenceStarts : b > i})
    ELSE total_frames - seq_len

ScenarioTable ==
    /\ Column(table, "seq_id") = <<1, 1, 1, 1, 1, 2, 2, 2>>
    /\ subset_len = 0
    /\ seq_len_arg = 3
    /\ t \in {"train", "val"}

\* C3: a window that would cross the next boundary b becomes [b - seq_len, b),
\* any other stays [idx, idx + seq_len); and the table of two sequences of 5
\* and 3 frames with seq_len 3 is constructed with boundaries [0, 5] and
\* answers idx 4 with frames [2, 3, 4].
C3_ShiftToBoundary ==
    /\ \A w \in Workers :
          (Called(w) /\ req[w] \in Rows) =>
              LET b == NextBoundary(req[w])
              IN idx[w] = IF b < req[w] + seq_len THEN b - seq_len ELSE req[w]
    /\ (ScenarioTable /\ ds_state # "new") =>
          /\ ds_state = "constructed"
          /\ start_idx = <<0, 5>>
          /\ \A w \in Workers : (Called(w) /\ req[w] = 4) => Window(w) = {2, 3, 4}

\* C4: idx and idx + total_frames resolve to the same window start and the
\* same label index.
C4_WrapAround ==
    \A w1, w2 \in Workers :
        (Called(w1) /\ Called(w2) /\ req[w2] = req[w1] + total_frames) =>
            /\ idx[w1] = idx[w2]
            /\ (pc[w1] = "done" /\ pc[w2] = "done") =>
                  (last_idx[w1] = last_idx[w2] /\ out[w1] = out[w2])

C4_Witness ==
    \E w1, w2 \in Workers :
        /\ pc[w1] = "done" /\ pc[w2] = "done"
        /\ req[w1] < 0
        /\ req[w2] = req[w1] + total_frames

\* C5: the direction and the labels returned are those of the last frame of
\* the window, index idx + seq_len - 1, a frame of the window's sequence.
C5_LabelOfLastFrame ==
    \A w \in Workers :
        pc[w] = "done" =>
            /\ last_idx[w] = idx[w] + seq_len - 1
            /\ last_idx[w] \in Window(w)
            /\ SeqId(last_idx[w]) = SeqId(idx[w])
            /\ out[w][1].direction = At(direction, idx[w] + seq_len - 1)

InVocabulary(v, possible_vals) == \E j \in 1..Len(possible_vals) : possible_vals[j] = v

UnknownCategorical ==
    \E i \in 1..Len(df_used) :
        \/ ~InVocabulary(df_used[i].red_light, RED_LIGHT_VALS)
        \/ ~InVocabulary(df_used[i].hazard_stop, HAZARD_STOP_VALS)
        \/ ~InVocabulary(df_used[i].speed_sign, SPEED_SIGN_VALS)

\* C6: a raw categorical value outside its vocabulary makes construction fail;
\* the dataset is never constructed with such a row.
C6_UnknownValueFailsConstruction ==
    UnknownCategorical => ds_state # "constructed"

ExactlyOneHot(row, v, possible_vals) ==
    /\ Len(row) = Len(possible_vals)
    /\ \E j \in 1..Len(row) :
          /\ possible_vals[j] = v
          /\ row[j] = 1
          /\ \A m \in (1..Len(row)) \ {j} : row[m] = 0

\* C7: every stored one-hot row has exactly one 1, at the position of the
\* vocabulary entry equal to the raw value.
C7_OneHotRows ==
    ds_state = "constructed" =>
        \A i \in 1..Len(df_used) :
            /\ ExactlyOneHot(labels.red_light[i], df_used[i].red_light, RED_LIGHT_VALS)
            /\ ExactlyOneHot(labels.hazard_stop[i], df_used[i].hazard_stop, HAZARD_STOP_VALS)
            /\ ExactlyOneHot(labels.speed_sign[i], df_used[i].speed_sign, SPEED_SIGN_VALS)

\* C8: __getitem__ calls of concurrent workers leave every field of the
\* constructed dataset unchanged, and calls for the same idx resolve to the
\* same window and label index whatever ran beside them.
C8_ReadOnlyAccess ==
    /\ [][ds_state = "constructed" => UNCHANGED fields]_vars
    /\ [](\A w1, w2 \in Workers :
            (Called(w1) /\ Called(w2) /\ req[w1] = req[w2]) =>
                /\ idx[w1] = idx[w2]
                /\ (pc[w1] \in {"done", "KeyError"} /\ pc[w2] \in {"done", "KeyError"} /\
                    Len(frames[w1]) = Len(frames[w2])) =>
                      (pc[w1] = pc[w2] /\ last_idx[w1] = last_idx[w2]))

C8_Witness ==
    /\ pc[1] = "done"
    /\ pc[2] = "frames"
    /\ req[1] = req[2]
    /\ Len(frames[2]) = 1
    /\ seq_len >= 2

\* C9: for every table, construction completes with start_idx the ascending
\* list of row 0 and the rows where seq_id changes.
C9_StartIdxIsSequenceStarts ==
    (ds_state # "new" /\ t \in {"train", "val"}) =>
        /\ ds_state = "constructed"
        /\ start_idx = Ascending(SequenceStarts)

\* C10: when every sequence has at least seq_len frames, the window start is
\* non-negative and every index read lies in [0, total_frames).
C10_IndicesInRange ==
    \A w \in Workers :
        (Called(w) /\ AllSeqsLongEnough) =>
            /\ idx[w] >= 0
            /\ Window(w) \subseteq Rows
            /\ idx[w] + seq_len \in Rows

====
